---- MODULE Spec2Model ----
(***************************************************************************)
(* Model of the Lucas-Kanade sparse optical flow tracker of                *)
(* assets/optical_flow_tracker.py: the Tracker object (tracks, frame_idx,  *)
(* prev_gray, cam) and one action per iteration of Tracker.run.            *)
(*                                                                         *)
(* Coordinates are integers in units of 1/Scale pixel, so that sub-pixel   *)
(* flow results and the truncation np.int32 applies to them both exist.    *)
(* cv2.calcOpticalFlowPyrLK and cv2.goodFeaturesToTrack are library calls: *)
(* their results are inputs of the iteration, drawn from bounded sets.     *)
(***************************************************************************)
EXTENDS Integers, Sequences, FiniteSets

(* ---- bounds of the model ---- *)
Scale == 2
MaxFrames == 11
MaxTracks == 2
Width == 16
Height == 6

(* ---- program constants ---- *)
track_len == 10
detect_interval == 5
maxCorners == 500
minDistance == 7
MaskRadius == 5
ErrThreshold == 1

VARIABLES
    tracks,      \* self.tracks: sequence of [id, pts]; id is the list object's identity
    frame_idx,   \* self.frame_idx
    prev_gray,   \* self.prev_gray (Unset until first assigned)
    cam,         \* self.cam: number of frames the capture has delivered
    pc,          \* where run() is: "run", "failed" (no frame), "attr_error"
    nextId,      \* history: the identity the next created list object gets
    retired,     \* history: identities update_tracks left out of new_tracks
    computed,    \* history: id -> every point computed for that live track, in time order
    flow,        \* history: what update_tracks saw in the last iteration, per track
    ran          \* history: which steps the last iteration ran, what they read and built

vars == <<tracks, frame_idx, prev_gray, cam, pc, nextId, retired, computed, flow, ran>>

(* ---- helpers ---- *)
Abs(a) == IF a < 0 THEN -a ELSE a
Max(a, b) == IF a >= b THEN a ELSE b
Min(a, b) == IF a <= b THEN a ELSE b
Last(s) == s[Len(s)]

(* prev_gray before line 55 first runs: the attribute does not exist *)
Unset == [idx |-> -1, color |-> "unset"]

(* cam.read() on a capture that delivers: the frame at the capture's position *)
ReadFrame(pos) == [idx |-> pos, color |-> "BGR"]

(* cv2.cvtColor(frame, cv2.COLOR_BGR2GRAY) *)
cvtColor(frame) == [idx |-> frame.idx, color |-> "GRAY"]

(* np.int32(v) on a float coordinate: truncation toward zero, in whole pixels *)
Int32(u) == IF u >= 0 THEN u \div Scale ELSE -((-u) \div Scale)

(* ---- update_tracks ---- *)

(* the library's results for one source point: forward flow (new, st_fwd) and
   backward flow (inferred, st_bwd).  The scene pans by one unit per frame.
   Both validity flags are unconstrained; the back-tracked point lands either
   just under one pixel from the source along x, or exactly one pixel from it
   along y (in the negative direction). *)
Offsets == {<<Scale - 1, 0>>, <<0, -Scale>>}
Choices == [st_fwd : BOOLEAN, st_bwd : BOOLEAN, off : Offsets]
calcOpticalFlowPyrLK(old, c) ==
    [old |-> old,
     new |-> <<old[1] + 1, old[2]>>,
     st_fwd |-> c.st_fwd,
     inferred |-> <<old[1] + c.off[1], old[2] + c.off[2]>>,
     st_bwd |-> c.st_bwd]

(* lines 67-68: the latest point of every track *)
points_pld(trks) == [i \in 1..Len(trks) |-> Last(trks[i].pts)]

(* lines 79-80: abs(points_pld - points_old_inferred).reshape(-1, 2).max(-1) *)
error_term(old, inferred) ==
    Max(Abs(old[1] - inferred[1]), Abs(old[2] - inferred[2]))

(* variant of line 81 with <= for < *)
point_valid_Le(old, inferred) == error_term(old, inferred) <= ErrThreshold * Scale

(* line 81: error_term < 1 (one pixel) *)
point_valid(old, inferred) == error_term(old, inferred) < ErrThreshold * Scale

(* lines 86-87: the flag the loop tests; the status outputs are not consulted *)
good_flag(o) == point_valid(o.old, o.inferred)

(* variants of lines 90-94 with one statement changed *)
ExtendTrack_NoTrim(pts, p) == Append(pts, p)

ExtendTrack_TrimAtBound(pts, p) ==
    LET appended == Append(pts, p)
    IN IF Len(appended) >= track_len THEN Tail(appended) ELSE appended

ExtendTrack_DelNewest(pts, p) ==
    LET appended == Append(pts, p)
    IN IF Len(appended) > track_len
       THEN SubSeq(appended, 1, Len(appended) - 1) ELSE appended

(* lines 90-94: track.append((x, y)); if len(track) > track_len: del track[0] *)
ExtendTrack(pts, p) ==
    LET appended == Append(pts, p)
    IN IF Len(appended) > track_len THEN Tail(appended) ELSE appended

(* variant of lines 86-87 with break for continue *)
new_tracks_Break(trks, outs) ==
    LET n == Min(Len(trks), Len(outs))
        bad == {i \in 1..n : ~good_flag(outs[i])}
        stop == IF bad = {} THEN n
                ELSE (CHOOSE i \in bad : \A j \in bad : i <= j) - 1
    IN [i \in 1..stop |-> [trks[i] EXCEPT !.pts = ExtendTrack(@, outs[i].new)]]

(* variant of lines 89-97 that appends a kept track to new_tracks twice *)
new_tracks_AppendTwice(trks, outs) ==
    LET n == Min(Len(trks), Len(outs))
        acc[i \in 0..n] ==
            IF i = 0 THEN <<>>
            ELSE IF ~good_flag(outs[i]) THEN acc[i - 1]
            ELSE LET t == [trks[i] EXCEPT !.pts = ExtendTrack(@, outs[i].new)]
                 IN Append(Append(acc[i - 1], t), t)
    IN acc[n]

(* lines 83-97: the loop over zip(self.tracks, points_new, point_valid) *)
new_tracks(trks, outs) ==
    LET n == Min(Len(trks), Len(outs))
        acc[i \in 0..n] ==
            IF i = 0 THEN <<>>
            ELSE IF ~good_flag(outs[i]) THEN acc[i - 1]
            ELSE Append(acc[i - 1],
                        [trks[i] EXCEPT !.pts = ExtendTrack(@, outs[i].new)])
    IN acc[n]

(* variant of line 102 that leaves self.tracks as it was *)
update_tracks_NoAssign(trks, outs) == trks

(* line 102: self.tracks = new_tracks *)
update_tracks(trks, outs) == new_tracks(trks, outs)

(* ---- get_new_tracks ---- *)

(* pixels the detector may propose corners at *)
Corners == {<<0, 0>>, <<3, 0>>, <<8, 0>>}

DistSq(p, q) == (p[1] - q[1]) * (p[1] - q[1]) + (p[2] - q[2]) * (p[2] - q[2])

(* the pixels of a frame *)
Pixels == (0..(Width - 1)) \X (0..(Height - 1))

(* variant of line 113 that takes track[0] for track[-1] *)
MaskCentres_Oldest(trks) ==
    {<<Int32(trks[i].pts[1][1]), Int32(trks[i].pts[1][2])>> : i \in 1..Len(trks)}

(* line 113: np.int32(track[-1]) for every track *)
MaskCentres(trks) ==
    {<<Int32(Last(trks[i].pts)[1]), Int32(Last(trks[i].pts)[2])>> : i \in 1..Len(trks)}

(* variant of lines 113-114 that draws no circle *)
MaskEligible_All(trks, px) == TRUE

(* lines 110-114: mask is 255 except in the filled radius-5 circles *)
MaskEligible(trks, px) ==
    \A c \in MaskCentres(trks) : DistSq(px, c) > MaskRadius * MaskRadius

(* lines 110-114: the mask handed to the detector, as the set of its pixels
   that are 0 (not eligible); every other pixel of the frame is 255 *)
Mask(trks) == {px \in Pixels : ~MaskEligible(trks, px)}

(* lines 117-118: what goodFeaturesToTrack may return under the mask: None, or
   distinct eligible pixels pairwise at least minDistance apart, at most
   maxCorners of them, in score order (any order) *)
FeatureSeqs(trks) ==
    LET room == Min(maxCorners, MaxTracks - Len(trks))
        ok == {px \in Corners : MaskEligible(trks, px)}
        seqs == UNION {[1..k -> ok] : k \in 1..Min(room, Cardinality(ok))}
    IN {s \in seqs :
          \A i, j \in 1..Len(s) :
              i # j => DistSq(s[i], s[j]) >= minDistance * minDistance}

goodFeaturesToTrack(trks) ==
    {[none |-> TRUE, pts |-> <<>>]}
        \cup {[none |-> FALSE, pts |-> s] : s \in FeatureSeqs(trks)}

(* np.float32(feature_points): pixel coordinates as float coordinates *)
Float32(px) == <<px[1] * Scale, px[2] * Scale>>

(* lines 120-122: one fresh single-point list per returned point *)
get_new_tracks(trks, feats, firstId) ==
    IF feats.none THEN trks
    ELSE trks \o [i \in 1..Len(feats.pts) |->
                    [id |-> firstId + i - 1, pts |-> <<Float32(feats.pts[i])>>]]

(* ---- run ---- *)

(* variant of line 47 that updates unconditionally *)
ShouldUpdate_Always(trks) == TRUE

(* line 47 *)
ShouldUpdate(trks) == Len(trks) > 0

(* variant of line 51 that detects on every frame *)
ShouldDetect_Always(idx) == TRUE

(* line 51 *)
ShouldDetect(idx) == idx % detect_interval = 0

(* variant of lines 47-52 in which get_new_tracks sees the tracks as they were
   before update_tracks *)
TracksAtDetect_Before(before, updated) == before

(* lines 52, 113, 122: self.tracks as get_new_tracks reads and appends to it,
   after update_tracks has assigned it (line 102) *)
TracksAtDetect(before, updated) == updated

Ids(trks) == {trks[i].id : i \in 1..Len(trks)}

Init ==
    /\ tracks = <<>>
    /\ frame_idx = 0
    /\ prev_gray = Unset
    /\ cam = 0
    /\ pc = "run"
    /\ nextId = 1
    /\ retired = {}
    /\ computed = <<>>
    /\ flow = <<>>
    /\ ran = [update |-> FALSE, detect |-> FALSE, img_old |-> Unset, seeded |-> {},
              mask |-> {}, ret |-> TRUE]

(* lines 41-60: one iteration of the loop on a frame the capture delivered *)
RunIteration(choice) ==
    /\ pc = "run"
    /\ frame_idx < MaxFrames
    /\ LET frame == ReadFrame(cam)
           frame_gray == cvtColor(frame)
           doUpdate == ShouldUpdate(tracks)
           old == points_pld(tracks)
           outs == [i \in 1..Len(tracks) |-> calcOpticalFlowPyrLK(old[i], choice[i])]
           updated == IF doUpdate THEN update_tracks(tracks, outs) ELSE tracks
           doDetect == ShouldDetect(frame_idx)
           seen == TracksAtDetect(tracks, updated)
       IN IF doUpdate /\ prev_gray = Unset
          THEN \* line 64 reads an attribute that was never assigned
               /\ pc' = "attr_error"
               /\ UNCHANGED <<tracks, frame_idx, prev_gray, cam, nextId, retired,
                              computed, flow, ran>>
          ELSE \E feats \in (IF doDetect THEN goodFeaturesToTrack(seen)
                             ELSE {[none |-> TRUE, pts |-> <<>>]}) :
               LET after == IF doDetect
                            THEN get_new_tracks(seen, feats, nextId)
                            ELSE updated
                   created == Ids(after) \ Ids(tracks)
               IN /\ tracks' = after
                  /\ frame_idx' = frame_idx + 1
                  /\ prev_gray' = frame_gray
                  /\ cam' = cam + 1
                  /\ pc' = "run"
                  /\ nextId' = nextId + Cardinality(created)
                  /\ retired' = IF doUpdate
                                THEN retired \cup
                                     {tracks[i].id : i \in {j \in 1..Len(tracks) :
                                                              ~good_flag(outs[j])}}
                                ELSE retired
                  /\ computed' =
                        [i \in 1..Len(after) |->
                            IF after[i].id \in created THEN after[i].pts
                            ELSE LET k == CHOOSE j \in 1..Len(tracks) :
                                              tracks[j].id = after[i].id
                                 IN IF doUpdate THEN Append(computed[k], outs[k].new)
                                    ELSE computed[k]]
                  /\ flow' = IF doUpdate
                             THEN [i \in 1..Len(tracks) |->
                                     [id |-> tracks[i].id,
                                      old |-> outs[i].old,
                                      new |-> outs[i].new,
                                      st_fwd |-> outs[i].st_fwd,
                                      inferred |-> outs[i].inferred,
                                      st_bwd |-> outs[i].st_bwd]]
                             ELSE <<>>
                  /\ ran' = [update |-> doUpdate, detect |-> doDetect,
                             img_old |-> IF doUpdate THEN prev_gray ELSE Unset,
                             seeded |-> created,
                             mask |-> IF doDetect THEN Mask(seen) ELSE {},
                             ret |-> TRUE]

(* variant of lines 42-55 in which the frame is converted only after the
   counter has been incremented *)
RunNoFrame_AfterCount ==
    /\ pc = "run"
    /\ pc' = "failed"
    /\ ran' = [ran EXCEPT !.ret = FALSE]
    /\ frame_idx' = frame_idx + 1
    /\ UNCHANGED <<tracks, prev_gray, cam, nextId, retired, computed, flow>>

(* lines 42-43: the capture delivers no frame (_ret is False, frame is None);
   cvtColor raises before anything is assigned and run() ends *)
RunNoFrame ==
    /\ pc = "run"
    /\ pc' = "failed"
    /\ ran' = [ran EXCEPT !.ret = FALSE]
    /\ UNCHANGED <<tracks, frame_idx, prev_gray, cam, nextId, retired, computed,
                   flow>>

Next ==
    \/ \E choice \in [1..Len(tracks) -> Choices] : RunIteration(choice)
    \/ RunNoFrame

Spec == Init /\ [][Next]_vars

(* ======================= properties ======================= *)

IdSeq(trks) == [i \in 1..Len(trks) |-> trks[i].id]
Threshold == ErrThreshold * Scale
RoundTrip(f) == Max(Abs(f.old[1] - f.inferred[1]), Abs(f.old[2] - f.inferred[2]))
Extensions(i) == Len(computed[i]) - 1
Dropped(i) == Len(computed[i]) - Len(tracks[i].pts)
FrameProcessed == cam' # cam

(* C1: whenever the driver can observe the live set (initially and after each
   processed frame), every live track holds at least 1 and at most
   track_len = 10 points. *)
C1_TrackLengthBounded ==
    \A i \in 1..Len(tracks) :
        1 <= Len(tracks[i].pts) /\ Len(tracks[i].pts) <= track_len

(* a track at the window bound from which the oldest point has been trimmed *)
C1_Witness ==
    \E i \in 1..Len(tracks) : Len(tracks[i].pts) = track_len /\ Dropped(i) >= 1

(* C2: a track is retained and extended only if the forward and the backward
   flow both report the point valid and the round-trip error is below the
   threshold; a point flagged invalid is never appended. *)
C2_RetainedOnlyIfValid ==
    \A i \in 1..Len(flow) :
        flow[i].id \in Ids(tracks) =>
            flow[i].st_fwd /\ flow[i].st_bwd /\ RoundTrip(flow[i]) < Threshold

(* C3 as stated: right after a seeding pass no two live tracks have newest
   points closer than minDistance = 7. *)
C3_AllNewestPointsSeparated ==
    ran.detect =>
        \A i, j \in 1..Len(tracks) :
            i # j => DistSq(Last(tracks[i].pts), Last(tracks[j].pts))
                        >= (minDistance * Scale) * (minDistance * Scale)

(* C3 as amended: right after a seeding pass the newly seeded points are
   pairwise at least minDistance = 7 apart, and every newly seeded point lies
   more than the mask radius 5 from the integer-truncated newest point of
   every track that was already live. *)
C3_SeedsSeparated ==
    ran.detect =>
        \A i \in 1..Len(tracks) :
            tracks[i].id \in ran.seeded =>
                \A j \in 1..Len(tracks) :
                    /\ (j # i /\ tracks[j].id \in ran.seeded) =>
                          DistSq(Last(tracks[i].pts), Last(tracks[j].pts))
                              >= (minDistance * Scale) * (minDistance * Scale)
                    /\ tracks[j].id \notin ran.seeded =>
                          DistSq(<<Int32(tracks[i].pts[1][1]), Int32(tracks[i].pts[1][2])>>,
                                 <<Int32(Last(tracks[j].pts)[1]), Int32(Last(tracks[j].pts)[2])>>)
                              > MaskRadius * MaskRadius

(* a seeding pass that added a track next to one that was already live *)
C3_Witness ==
    /\ ran.detect
    /\ \E i, j \in 1..Len(tracks) :
          tracks[i].id \in ran.seeded /\ tracks[j].id \notin ran.seeded

(* C4: a track removed from the live set never is in it again, no track is in
   the live set twice, and the tracks a frame adds are single-point tracks of
   a new identity. *)
C4_NoReactivation ==
    /\ Ids(tracks) \cap retired = {}
    /\ Cardinality(Ids(tracks)) = Len(tracks)
    /\ \A i \in 1..Len(tracks) :
          tracks[i].id \in ran.seeded => Len(tracks[i].pts) = 1

(* a track has been retired and, later, a seeding pass has added new tracks *)
C4_Witness == retired # {} /\ ran.seeded # {} /\ tracks # <<>>

(* C5: the frame counter starts at 0 and grows by exactly 1 with every
   processed frame; the seeding pass runs in a frame iff the counter is then a
   multiple of detect_interval = 5, and no other frame creates a track. *)
C5_CounterAndSeeding ==
    /\ frame_idx = 0
    /\ [][/\ FrameProcessed <=> frame_idx' = frame_idx + 1
          /\ frame_idx' # frame_idx => frame_idx' = frame_idx + 1
          /\ FrameProcessed =>
                /\ ran'.detect <=> (frame_idx % detect_interval = 0)
                /\ (frame_idx % detect_interval # 0) =>
                      /\ Ids(tracks') \subseteq Ids(tracks)
                      /\ Len(tracks') <= Len(tracks)]_vars

(* frame 5 has been processed and its seeding pass created a track *)
C5_Witness == frame_idx = detect_interval + 1 /\ ran.detect /\ ran.seeded # {}

(* C6 as stated: a seeded track reaches the window bound of 10 points after 10
   successful extensions, and the 11th successful extension is the one that
   drops its oldest point. *)
C6_BoundAfterTenExtensions ==
    \A i \in 1..Len(tracks) :
        /\ Extensions(i) < track_len => Len(tracks[i].pts) < track_len
        /\ Extensions(i) >= track_len => Len(tracks[i].pts) = track_len
        /\ Extensions(i) <= track_len => Dropped(i) = 0
        /\ Extensions(i) > track_len => Dropped(i) = Extensions(i) - track_len

(* C6 as amended: a seeded track holds 1 + k points after k <= 9 successful
   extensions, so it reaches the window bound of 10 points after 9 of them;
   the 10th successful extension is the first to drop its oldest point, and
   the length stays exactly 10 from then on. *)
C6_BoundAfterNineExtensions ==
    \A i \in 1..Len(tracks) :
        /\ Extensions(i) < track_len - 1 => Len(tracks[i].pts) = Extensions(i) + 1
        /\ Extensions(i) >= track_len - 1 => Len(tracks[i].pts) = track_len
        /\ Extensions(i) <= track_len - 1 => Dropped(i) = 0
        /\ Extensions(i) > track_len - 1 =>
              Dropped(i) = Extensions(i) - (track_len - 1)

(* a track extended 10 times since it was seeded *)
C6_Witness ==
    \E i \in 1..Len(tracks) : Extensions(i) = track_len /\ Dropped(i) = 1

(* C7: frame 0 is never subject to extension; whenever extension runs, on a
   frame n >= 1, it reads a previous-frame slot that holds frame n - 1; the
   slot is never read before it is assigned. *)
C7_PreviousFrameDefined ==
    /\ pc # "attr_error"
    /\ frame_idx = 1 => ~ran.update /\ flow = <<>>
    /\ ran.update =>
          /\ frame_idx >= 2
          /\ ran.img_old = [idx |-> frame_idx - 2, color |-> "GRAY"]
          /\ prev_gray = [idx |-> frame_idx - 1, color |-> "GRAY"]

(* extension has run on frame 3 *)
C7_Witness == ran.update /\ frame_idx = 4 /\ flow # <<>>

(* C8: in one extension pass exactly the tracks whose check failed are
   removed, every other track is kept and extended, the survivors keep their
   relative order, and the frame completes (counter, previous frame). *)
C8_OnlyFailedDropped ==
    [][(FrameProcessed /\ Len(tracks) > 0) =>
          LET goodIds == {flow'[i].id : i \in {j \in 1..Len(flow') :
                                                 RoundTrip(flow'[j]) < Threshold}}
              before == IdSeq(tracks)
              after == IdSeq(tracks')
          IN /\ IdSeq(flow') = before
             /\ SelectSeq(after, LAMBDA x : x \in Ids(tracks))
                   = SelectSeq(before, LAMBDA x : x \in goodIds)
             /\ \A k \in 1..Len(tracks') :
                   tracks'[k].id \in Ids(tracks) =>
                       \E i \in 1..Len(tracks) :
                           /\ tracks[i].id = tracks'[k].id
                           /\ Last(tracks'[k].pts) = flow'[i].new
                           /\ Len(computed'[k]) = Len(computed[i]) + 1
             /\ frame_idx' = frame_idx + 1
             /\ prev_gray' = cvtColor(ReadFrame(cam))
             /\ pc' = "run"]_vars

(* of two tracks the first failed its check and the second survived it *)
C8_Witness ==
    /\ Len(flow) = 2
    /\ RoundTrip(flow[1]) >= Threshold
    /\ RoundTrip(flow[2]) < Threshold
    /\ Len(tracks) >= 1
    /\ tracks[1].id = flow[2].id

(* C9: with e the largest per-axis distance between a track's newest point and
   the back-tracked point: if e < 1.0 the track is live after the step with
   exactly one point appended, if e >= 1.0 it is removed in that frame. *)
C9_ThresholdDecides ==
    [][FrameProcessed =>
          \A i \in 1..Len(tracks) :
              LET f == flow'[i]
                  e == Max(Abs(f.old[1] - f.inferred[1]), Abs(f.old[2] - f.inferred[2]))
              IN /\ f.id = tracks[i].id /\ f.old = Last(tracks[i].pts)
                 /\ e < ErrThreshold * Scale =>
                       \E k \in 1..Len(tracks') :
                           /\ tracks'[k].id = tracks[i].id
                           /\ tracks'[k].pts \in
                                 {Append(tracks[i].pts, f.new),
                                  Tail(Append(tracks[i].pts, f.new))}
                 /\ e >= ErrThreshold * Scale =>
                       tracks[i].id \notin Ids(tracks')]_vars

(* one track retained with an error just under a pixel, one removed with an
   error of exactly one pixel *)
C9_Witness ==
    \E i, j \in 1..Len(flow) :
        /\ RoundTrip(flow[i]) = Threshold - 1
        /\ flow[i].id \in Ids(tracks)
        /\ RoundTrip(flow[j]) = Threshold
        /\ flow[j].id \notin Ids(tracks)

(* C10: points are never reordered: an extension of t by p gives t followed by
   p below the window bound and t without its oldest point followed by p at
   the bound, so a track is always the newest points computed for it, in time
   order, ending with the point of the most recent frame. *)
C10_PointsInTimeOrder ==
    /\ [](\A i \in 1..Len(tracks) :
            LET c == computed[i]
                n == Len(tracks[i].pts)
            IN /\ n = Min(Len(c), track_len)
               /\ tracks[i].pts = SubSeq(c, Len(c) - n + 1, Len(c)))
    /\ [][FrameProcessed =>
            \A k \in 1..Len(tracks') :
                \A i \in 1..Len(tracks) :
                    tracks'[k].id = tracks[i].id =>
                        LET t == tracks[i].pts
                            p == flow'[i].new
                        IN tracks'[k].pts =
                              IF Len(t) < track_len THEN Append(t, p)
                              ELSE Append(Tail(t), p)]_vars

(* a track at the window bound whose points are the last 10 of the 11
   computed for it *)
C10_Witness ==
    \E i \in 1..Len(tracks) :
        /\ Len(computed[i]) = track_len + 1
        /\ tracks[i].pts = Tail(computed[i])
        /\ tracks[i].pts[1] # tracks[i].pts[track_len]

(* C11: in every seeding pass the mask handed to the corner detector marks
   ineligible exactly the pixels within the radius-5 disk centred on the
   integer-truncated newest point of each track live at that moment, every
   other pixel being eligible, and no newly seeded track starts at a pixel
   inside such a disk. *)
C11_MaskExcludesDisks ==
    ran.detect =>
        LET live == {i \in 1..Len(tracks) : tracks[i].id \notin ran.seeded}
            inDisk(px) ==
                \E i \in live :
                    LET c == Last(tracks[i].pts)
                        cx == IF c[1] >= 0 THEN c[1] \div Scale ELSE -((-c[1]) \div Scale)
                        cy == IF c[2] >= 0 THEN c[2] \div Scale ELSE -((-c[2]) \div Scale)
                    IN (px[1] - cx) * (px[1] - cx) + (px[2] - cy) * (px[2] - cy)
                          <= MaskRadius * MaskRadius
        IN /\ ran.mask = {px \in Pixels : inDisk(px)}
           /\ \A i \in 1..Len(tracks) :
                 tracks[i].id \in ran.seeded =>
                     /\ Len(tracks[i].pts) = 1
                     /\ \E px \in Pixels :
                           /\ tracks[i].pts[1] = <<px[1] * Scale, px[2] * Scale>>
                           /\ ~inDisk(px)

(* a seeding pass whose mask excluded a disk round a track that had moved
   since it was seeded, and which seeded a track outside that disk *)
C11_Witness ==
    /\ ran.detect
    /\ ran.seeded # {}
    /\ \E i \in 1..Len(tracks) :
          /\ tracks[i].id \notin ran.seeded
          /\ Int32(Last(tracks[i].pts)[1]) # Int32(tracks[i].pts[1][1])
    /\ ran.mask # {}

(* C12: within a frame the extension step completes before the seeding step:
   the seeding mask is built from the live set as extension left it (a track
   retired in the frame excludes nothing, a surviving track excludes around
   its new position), and a track seeded in frame n has exactly 1 point at the
   end of frame n and is first considered for extension in frame n + 1. *)
C12_ExtensionBeforeSeeding ==
    [][FrameProcessed =>
          LET surv == {i \in 1..Len(tracks) : RoundTrip(flow'[i]) < Threshold}
              centres == {<<Int32(flow'[i].new[1]), Int32(flow'[i].new[2])>> : i \in surv}
          IN /\ IdSeq(flow') = IdSeq(tracks)
             /\ ran'.detect =>
                   ran'.mask =
                       {px \in Pixels :
                           \E c \in centres : DistSq(px, c) <= MaskRadius * MaskRadius}
             /\ \A k \in 1..Len(tracks') :
                   tracks'[k].id \in ran'.seeded =>
                       /\ Len(tracks'[k].pts) = 1
                       /\ tracks'[k].id \notin Ids(tracks)
                       /\ \A i \in 1..Len(flow') : flow'[i].id # tracks'[k].id]_vars

(* a seeding frame in which one track was retired, another survived and moved
   to a new pixel, and a track was seeded *)
C12_Witness ==
    /\ ran.detect
    /\ ran.seeded # {}
    /\ \E i, j \in 1..Len(flow) :
          /\ RoundTrip(flow[i]) >= Threshold
          /\ RoundTrip(flow[j]) < Threshold
          /\ Int32(flow[j].new[1]) # Int32(flow[j].old[1])

(* C13: when the driver supplies no usable frame, processing of that frame
   ends in a hard failure, and the live track set, the frame counter and the
   previous-frame slot keep the values they had before the frame was
   attempted; nothing is processed after the failure. *)
C13_NoFrameFailsUnchanged ==
    /\ [](pc = "failed" <=> ~ran.ret)
    /\ [][(ran.ret /\ ~ran'.ret) =>
             /\ pc' = "failed"
             /\ tracks' = tracks
             /\ frame_idx' = frame_idx
             /\ prev_gray' = prev_gray]_vars
    /\ [][pc = "failed" => UNCHANGED <<tracks, frame_idx, prev_gray, pc>>]_vars

(* the capture delivered no frame after frames had been processed and while
   tracks were live *)
C13_Witness ==
    /\ pc = "failed"
    /\ ~ran.ret
    /\ frame_idx >= 2
    /\ tracks # <<>>
    /\ prev_gray # Unset

(* C14: the extension step never creates tracks: after an extension pass there
   are at most as many live tracks as before it, so over frames without a
   seeding pass (counter not a multiple of 5) the number of live tracks never
   grows, and an empty live set stays empty until the next seeding frame. *)
C14_ExtensionNeverCreates ==
    [][FrameProcessed =>
          /\ Cardinality({k \in 1..Len(tracks') : tracks'[k].id \in Ids(tracks)})
                <= Len(tracks)
          /\ (frame_idx % detect_interval # 0) =>
                /\ Len(tracks') <= Len(tracks)
                /\ (tracks = <<>>) => (tracks' = <<>>)]_vars

(* a frame without a seeding pass in which one of two live tracks was removed *)
C14_Witness ==
    /\ ~ran.detect
    /\ ran.update
    /\ Len(flow) = 2
    /\ Len(tracks) = 1

====
